---- MODULE Spec2Model ----
(***************************************************************************)
(* A model of ytx.py: URL resolution (get_video_info), aggregation with    *)
(* de-duplication (extract_video_id), metadata enrichment                  *)
(* (get_youtube_metadata, update_video_metadata), duration conversion      *)
(* (parse_iso8601_duration, format_duration) and the main script's         *)
(* filter / sort / render.                                                 *)
(*                                                                         *)
(* Python strings are sequences of one-character strings, so that parsing  *)
(* and formatting are computed character by character.  Python's None is   *)
(* the record None and a present value x is Some(x).                       *)
(***************************************************************************)
EXTENDS Integers, Sequences, FiniteSets, TLC

\* ------------------------------------------------------------------ bounds
\* Longest list of candidate URLs one run collects in found_urls.
MaxUrls == 2
\* Largest hour / minute / second component of an ISO-8601 duration tried.
MaxHours == 2
MaxMinutes == 61
MaxSeconds == 61

\* ------------------------------------------------------------- Optional[T]
None == [some |-> FALSE, val |-> <<>>]
Some(x) == [some |-> TRUE, val |-> x]

\* ------------------------------------------------------------ str helpers
Digits == <<"0", "1", "2", "3", "4", "5", "6", "7", "8", "9">>
DigitSet == {Digits[i] : i \in 1..10}
LowerLetters == <<"a", "b", "c", "d", "e", "f", "g", "h", "i", "j", "k", "l", "m",
                  "n", "o", "p", "q", "r", "s", "t", "u", "v", "w", "x", "y", "z">>
UpperLetters == <<"A", "B", "C", "D", "E", "F", "G", "H", "I", "J", "K", "L", "M",
                  "N", "O", "P", "Q", "R", "S", "T", "U", "V", "W", "X", "Y", "Z">>
LetterSet == {LowerLetters[i] : i \in 1..26} \cup {UpperLetters[i] : i \in 1..26}

\* str.lower() on one character, then on a string.
LowerChar(c) ==
    IF \E i \in 1..26 : UpperLetters[i] = c
    THEN LowerLetters[CHOOSE i \in 1..26 : UpperLetters[i] = c]
    ELSE c
Lower(s) == [i \in 1..Len(s) |-> LowerChar(s[i])]

\* s[i:] and s[:i] with Python's 0-based bounds: Drop(s, n) is s[n:].
Drop(s, n) == IF n >= Len(s) THEN <<>> ELSE SubSeq(s, n + 1, Len(s))
Take(s, n) == IF n >= Len(s) THEN s ELSE SubSeq(s, 1, n)

\* s.startswith(p) and  p in s.
StartsWith(s, p) == Len(s) >= Len(p) /\ SubSeq(s, 1, Len(p)) = p
Contains(s, p) == \E i \in 0..(Len(s) - Len(p)) : SubSeq(s, i + 1, i + Len(p)) = p

\* s.find(c): the 1-based position of the first c in s, 0 when there is none.
Find(s, c) ==
    IF \E i \in 1..Len(s) : s[i] = c
    THEN CHOOSE i \in 1..Len(s) : s[i] = c /\ \A j \in 1..(i - 1) : s[j] # c
    ELSE 0
\* s.rfind(c): the last position of c, 0 when there is none.
RFind(s, c) ==
    IF \E i \in 1..Len(s) : s[i] = c
    THEN CHOOSE i \in 1..Len(s) : s[i] = c /\ \A j \in (i + 1)..Len(s) : s[j] # c
    ELSE 0
\* The first position >= from of a character of the set cs, Len(s)+1 when none.
FindAny(s, cs, from) ==
    IF \E i \in from..Len(s) : s[i] \in cs
    THEN CHOOSE i \in from..Len(s) : s[i] \in cs /\ \A j \in from..(i - 1) : s[j] \notin cs
    ELSE Len(s) + 1

\* s.split(c): the pieces of s between the occurrences of c.
RECURSIVE Split(_, _)
SplitAt(s, c, k) == IF k = 0 THEN <<s>> ELSE <<Take(s, k - 1)>> \o Split(Drop(s, k), c)
Split(s, c) == SplitAt(s, c, Find(s, c))

\* s.rstrip("s"): every trailing "s" is removed.
RECURSIVE rstrip(_, _)
rstrip(s, c) ==
    IF Len(s) > 0 /\ s[Len(s)] = c THEN rstrip(Take(s, Len(s) - 1), c) ELSE s

\* s.replace(a, b) for single characters.
Replace(s, a, b) == [i \in 1..Len(s) |-> IF s[i] = a THEN b ELSE s[i]]

\* ------------------------------------------------------------ urllib.parse
SchemeChars == LetterSet \cup DigitSet \cup {"+", "-", "."}

\* The part of a hexadecimal table unquote() needs for the escapes tried here.
HexChr(h, l) ==
    CASE h = "7" /\ l = "3" -> <<"s">>
      [] h = "3" /\ l = "1" -> <<"1">>
      [] h = "2" /\ l \in {"F", "f"} -> <<"/">>
      [] h = "2" /\ l = "6" -> <<"&">>
      [] OTHER -> <<"%", h, l>>
HexSet == DigitSet \cup {"A", "B", "C", "D", "E", "F", "a", "b", "c", "d", "e", "f"}

\* urllib.parse.unquote: %XX becomes the character it encodes.
RECURSIVE unquote(_)
unquote(s) ==
    IF s = <<>> THEN <<>>
    ELSE IF s[1] = "%" /\ Len(s) >= 3 /\ s[2] \in HexSet /\ s[3] \in HexSet
         THEN HexChr(s[2], s[3]) \o unquote(Drop(s, 3))
         ELSE <<s[1]>> \o unquote(Drop(s, 1))

\* s split at position k (1-based) of a separator: (s[:k-1], s[k:]), and
\* (s, "") when k = 0.
Cut(s, k) ==
    IF k > 0 THEN [head |-> Take(s, k - 1), tail |-> Drop(s, k)]
    ELSE [head |-> s, tail |-> <<>>]
\* s.split(c, 1) when c is in s.
SplitOnce(s, c) == Cut(s, Find(s, c))

\* urlsplit: the scheme is what precedes the first ":" when that is a letter
\* followed by scheme characters.
SplitSchemeAt(url, i) ==
    IF i > 1 /\ url[1] \in LetterSet /\ \A k \in 1..(i - 1) : url[k] \in SchemeChars
    THEN [scheme |-> Lower(Take(url, i - 1)), rest |-> Drop(url, i)]
    ELSE [scheme |-> <<>>, rest |-> url]
SplitScheme(url) == SplitSchemeAt(url, Find(url, ":"))

\* _splitnetloc(url, 2): after "//", up to the first of "/", "?", "#".
SplitNetlocAt(u, delim) == [netloc |-> SubSeq(u, 3, delim - 1), rest |-> Drop(u, delim - 1)]
SplitNetloc(u) ==
    IF Take(u, 2) = <<"/", "/">> THEN SplitNetlocAt(u, FindAny(u, {"/", "?", "#"}, 3))
    ELSE [netloc |-> <<>>, rest |-> u]
\* The test that makes urlsplit raise ValueError("Invalid IPv6 URL").
InvalidIPv6(netloc) ==
    \/ (Find(netloc, "[") > 0 /\ Find(netloc, "]") = 0)
    \/ (Find(netloc, "]") > 0 /\ Find(netloc, "[") = 0)

\* _splitparams(url): split at the first ";" after the last "/".
SplitParamsFrom(u, sl) ==
    IF sl > 0
    THEN Cut(u, IF FindAny(u, {";"}, sl) > Len(u) THEN 0 ELSE FindAny(u, {";"}, sl))
    ELSE Cut(u, Find(u, ";"))
SplitParams(u) == SplitParamsFrom(u, RFind(u, "/"))

\* urllib.parse.urlparse(url), one split after the other.  The result is
\* [ok, scheme, netloc, path, params, query, fragment]; ok is FALSE where
\* urlsplit raises ValueError.
urlparse_params(scheme, netloc, fragment, query, p) ==
    [ok |-> ~InvalidIPv6(netloc), scheme |-> scheme, netloc |-> netloc, path |-> p.head,
     params |-> p.tail, query |-> query, fragment |-> fragment]
urlparse_query(scheme, netloc, fragment, q) ==
    urlparse_params(scheme, netloc, fragment, q.tail, SplitParams(q.head))
urlparse_fragment(scheme, netloc, f) ==
    urlparse_query(scheme, netloc, f.tail, SplitOnce(f.head, "?"))
urlparse_netloc(scheme, n) ==
    urlparse_fragment(scheme, n.netloc, SplitOnce(n.rest, "#"))
urlparse_scheme(s) == urlparse_netloc(s.scheme, SplitNetloc(s.rest))
urlparse(url) == urlparse_scheme(SplitScheme(url))

\* urllib.parse.parse_qsl with keep_blank_values=False: the (name, value)
\* pairs of the "&"-separated fields that have a non-empty value.
parse_qsl_field(nv) ==
    IF nv.tail # <<>>
    THEN << <<unquote(Replace(nv.head, "+", " ")), unquote(Replace(nv.tail, "+", " "))>> >>
    ELSE <<>>
RECURSIVE parse_qsl_fields(_)
parse_qsl_fields(fields) ==
    IF fields = <<>> THEN <<>>
    ELSE parse_qsl_field(SplitOnce(fields[1], "=")) \o parse_qsl_fields(Tail(fields))
parse_qsl(query) == IF query = <<>> THEN <<>> ELSE parse_qsl_fields(Split(query, "&"))

\* parse_qs(query).get(key, [None])[0]: the first value given for key.
FirstValue(pairs, hits) ==
    IF hits = {} THEN None ELSE Some(pairs[CHOOSE i \in hits : \A j \in hits : i <= j][2])
ValuesOf(pairs, key) == FirstValue(pairs, {i \in 1..Len(pairs) : pairs[i][1] = key})
qs_get(query, key) == ValuesOf(parse_qsl(query), key)

\* --------------------------------------------------------- get_video_info
EMBED == <<"/", "e", "m", "b", "e", "d", "/">>
SHORTS == <<"/", "s", "h", "o", "r", "t", "s", "/">>
YOUTU_BE == <<"y", "o", "u", "t", "u", ".", "b", "e">>
YOUTUBE_COM == <<"y", "o", "u", "t", "u", "b", "e", ".", "c", "o", "m">>

\* Mutant: the leading "/" of a short link's path is kept in the id.
get_video_info_id_keepslash(path, netloc, query) ==
    IF StartsWith(path, EMBED) THEN Some(Drop(path, Len(EMBED)))
    ELSE IF StartsWith(path, SHORTS) THEN Some(Drop(path, Len(SHORTS)))
    ELSE IF Contains(netloc, YOUTU_BE) THEN Some(path)
    ELSE IF Contains(netloc, YOUTUBE_COM) THEN qs_get(query, <<"v">>)
    ELSE None

\* The if/elif chain that picks the video id (first matching rule wins).
get_video_info_id(path, netloc, query) ==
    IF StartsWith(path, EMBED) THEN Some(Drop(path, Len(EMBED)))
    ELSE IF StartsWith(path, SHORTS) THEN Some(Drop(path, Len(SHORTS)))
    ELSE IF Contains(netloc, YOUTU_BE) THEN Some(Drop(path, 1))
    ELSE IF Contains(netloc, YOUTUBE_COM) THEN qs_get(query, <<"v">>)
    ELSE None

\* get_video_info(url): the pair (video_id, timestamp).
get_video_info_parsed(parsed_url) ==
    IF ~parsed_url.ok THEN [video_id |-> None, timestamp |-> None]
    ELSE [video_id |-> get_video_info_id(parsed_url.path, Lower(parsed_url.netloc),
                                         parsed_url.query),
          timestamp |-> qs_get(parsed_url.query, <<"t">>)]
get_video_info(url) == get_video_info_parsed(urlparse(url))

\* ---------------------------------------------------- extract_video_id
\* class YT_Video: a pending record holds video_id and timestamp only.
YT_Video(video_id, timestamp) ==
    [video_id |-> video_id, title |-> None, timestamp |-> timestamp, channel |-> None,
     post_date |-> None, view_count |-> None, duration |-> None, short_url |-> None,
     markdown_link |-> None, extended_link |-> None]

\* The timestamp as the aggregator stores it: rstrip("s") when present.
StoredTimestamp(timestamp) ==
    IF timestamp.some THEN Some(rstrip(timestamp.val, "s")) ELSE None

\* "video_id in videos", videos being the dict kept as the sequence of its
\* values in insertion order.
InVideos(videos, video_id) == \E k \in 1..Len(videos) : videos[k].video_id = video_id

\* The body of the for loop for one item, given what get_video_info returned.
extract_step(videos, vi) ==
    IF ~vi.video_id.some \/ InVideos(videos, vi.video_id.val) THEN videos
    ELSE Append(videos, YT_Video(vi.video_id.val, StoredTimestamp(vi.timestamp)))
RECURSIVE extract_loop(_, _)
extract_loop(items, videos) ==
    IF items = <<>> THEN videos
    ELSE extract_loop(Tail(items), extract_step(videos, get_video_info(items[1])))

\* Mutant: a later URL of a known id overwrites the stored record.
extract_step_lastwins(videos, vi) ==
    IF ~vi.video_id.some THEN videos
    ELSE IF InVideos(videos, vi.video_id.val)
    THEN [k \in 1..Len(videos) |->
            IF videos[k].video_id = vi.video_id.val
            THEN YT_Video(vi.video_id.val, StoredTimestamp(vi.timestamp))
            ELSE videos[k]]
    ELSE Append(videos, YT_Video(vi.video_id.val, StoredTimestamp(vi.timestamp)))
RECURSIVE extract_loop_lastwins(_, _)
extract_loop_lastwins(items, videos) ==
    IF items = <<>> THEN videos
    ELSE extract_loop_lastwins(Tail(items),
                               extract_step_lastwins(videos, get_video_info(items[1])))
extract_video_id_lastwins(items) == extract_loop_lastwins(items, <<>>)

\* Mutant: no "video_id not in videos" test, every resolved URL is recorded.
extract_step_nodedup(videos, vi) ==
    IF ~vi.video_id.some THEN videos
    ELSE Append(videos, YT_Video(vi.video_id.val, StoredTimestamp(vi.timestamp)))
RECURSIVE extract_loop_nodedup(_, _)
extract_loop_nodedup(items, videos) ==
    IF items = <<>> THEN videos
    ELSE extract_loop_nodedup(Tail(items),
                              extract_step_nodedup(videos, get_video_info(items[1])))
extract_video_id_nodedup(items) == extract_loop_nodedup(items, <<>>)

\* extract_video_id(items): list(videos.values()).
extract_video_id(items) == extract_loop(items, <<>>)

\* ------------------------------------------------ extract_youtube_links
WordChars == LetterSet \cup DigitSet \cup {"_"}
IdChars == WordChars \cup {"-"}
HTTP == <<"h", "t", "t", "p">>
COLON_SLASHES == <<":", "/", "/">>
WWW_DOT == <<"w", "w", "w", ".">>
WATCH_V == <<"w", "a", "t", "c", "h", "?", "v", "=">>
EMBED_ == <<"e", "m", "b", "e", "d", "/">>
SHORTS_ == <<"s", "h", "o", "r", "t", "s", "/">>

\* The length of the longest prefix of s made of characters of cs.
RECURSIVE Run(_, _)
Run(s, cs) == IF s # <<>> /\ s[1] \in cs THEN 1 + Run(Tail(s), cs) ELSE 0

\* YOUTUBE_RE at the start of s, piece by piece; each operator gives the
\* length of the match of the rest of the pattern, -1 when there is none.
\* s holds no white space, so \S* takes the rest of s.
\* (?:[&?]\S*)? after a long URL's id, (?:\?\S*)? after a short one's.
MatchParams(s, seps) == IF s # <<>> /\ s[1] \in seps THEN Len(s) ELSE 0
\* [\w-]+ and the optional parameters.
MatchIdRun(s, n, seps) == IF n = 0 THEN -1 ELSE n + MatchParams(Drop(s, n), seps)
MatchId(s, seps) == MatchIdRun(s, Run(s, IdChars), seps)
\* p, then the id: -1 when s does not start with p.
MatchAfter(s, p, seps) ==
    IF StartsWith(s, p) /\ MatchId(Drop(s, Len(p)), seps) >= 0
    THEN Len(p) + MatchId(Drop(s, Len(p)), seps)
    ELSE -1
\* watch\?v=|embed/|shorts/ after youtube\.com/
MatchKind(s) ==
    IF StartsWith(s, WATCH_V) THEN MatchAfter(s, WATCH_V, {"&", "?"})
    ELSE IF StartsWith(s, EMBED_) THEN MatchAfter(s, EMBED_, {"&", "?"})
    ELSE MatchAfter(s, SHORTS_, {"&", "?"})
\* youtube\.com/... | youtu\.be/...
MatchHost(s) ==
    IF StartsWith(s, YOUTUBE_COM \o <<"/">>)
    THEN (IF MatchKind(Drop(s, Len(YOUTUBE_COM) + 1)) >= 0
          THEN Len(YOUTUBE_COM) + 1 + MatchKind(Drop(s, Len(YOUTUBE_COM) + 1)) ELSE -1)
    ELSE MatchAfter(s, YOUTU_BE \o <<"/">>, {"?"})
\* (?:www\.)?
MatchWww(s) ==
    IF StartsWith(s, WWW_DOT)
    THEN (IF MatchHost(Drop(s, 4)) >= 0 THEN 4 + MatchHost(Drop(s, 4)) ELSE -1)
    ELSE MatchHost(s)
\* https?://
MatchProtocol(s, n) == IF n > 0 /\ MatchWww(Drop(s, n)) >= 0 THEN n + MatchWww(Drop(s, n)) ELSE 0
\* The length of the match of YOUTUBE_RE at the start of s, 0 when none.
YOUTUBE_RE_match(s) ==
    MatchProtocol(s, IF StartsWith(s, HTTP \o <<"s">> \o COLON_SLASHES) THEN 8
                     ELSE IF StartsWith(s, HTTP \o COLON_SLASHES) THEN 7 ELSE 0)

\* YOUTUBE_RE.findall over one white-space-free word of the text.
RECURSIVE findall_word(_)
findall_from(s, n) ==
    IF n > 0 THEN <<Take(s, n)>> \o findall_word(Drop(s, n)) ELSE findall_word(Tail(s))
findall_word(s) == IF s = <<>> THEN <<>> ELSE findall_from(s, YOUTUBE_RE_match(s))
\* findall over a text given as the sequence of its words.
RECURSIVE findall(_)
findall(text) == IF text = <<>> THEN <<>> ELSE findall_word(text[1]) \o findall(Tail(text))

\* extract_youtube_links(text): list(set(findall)), every order the set may
\* be listed in.
Range(s) == {s[i] : i \in 1..Len(s)}
Orders(found) ==
    {l \in [1..Cardinality(found) -> found] :
        \A i, j \in 1..Cardinality(found) : i # j => l[i] # l[j]}
extract_youtube_links(text) == Orders(Range(findall(text)))

\* -------------------------------------------- durations (ISO 8601, display)
DigitVal(c) == (CHOOSE i \in 1..10 : Digits[i] = c) - 1
\* int(s) for a string of decimal digits.
RECURSIVE int(_)
int(s) == IF s = <<>> THEN 0 ELSE 10 * int(Take(s, Len(s) - 1)) + DigitVal(s[Len(s)])
\* str(n) for n >= 0.
RECURSIVE str(_)
str(n) == IF n < 10 THEN <<Digits[n + 1]>> ELSE str(n \div 10) \o <<Digits[(n % 10) + 1]>>
\* format(n, "02"): zero-padded on the left to two characters.
RECURSIVE zfill(_, _)
zfill(s, width) == IF Len(s) >= width THEN s ELSE zfill(<<"0">> \o s, width)

\* One optional group (\d+U)? of the pattern at the start of s, n being the
\* number of digits s starts with: the group's number and what follows it.
DurationGroupOf(s, n, unit) ==
    IF n >= 1 /\ Len(s) > n /\ s[n + 1] = unit
    THEN [value |-> int(Take(s, n)), rest |-> Drop(s, n + 1)]
    ELSE [value |-> 0, rest |-> s]
DurationGroup(s, unit) == DurationGroupOf(s, Run(s, DigitSet), unit)

\* parse_iso8601_duration(duration): re.match of PT(\d+H)?(\d+M)?(\d+S)?.
duration_seconds(h, m, s) == h.value * 3600 + m.value * 60 + s.value
duration_after_minutes(h, m) == duration_seconds(h, m, DurationGroup(m.rest, "S"))
duration_after_hours(h) == duration_after_minutes(h, DurationGroup(h.rest, "M"))
parse_iso8601_duration(duration) ==
    IF ~StartsWith(duration, <<"P", "T">>) THEN 0
    ELSE duration_after_hours(DurationGroup(Drop(duration, 2), "H"))

\* Mutant: the minutes of a duration under one hour are zero-padded too.
format_duration_padded(seconds) ==
    LET hours == seconds \div 3600
        minutes == (seconds % 3600) \div 60
        secs == (seconds % 3600) % 60
    IN  IF hours # 0
        THEN str(hours) \o <<":">> \o zfill(str(minutes), 2) \o <<":">> \o zfill(str(secs), 2)
        ELSE zfill(str(minutes), 2) \o <<":">> \o zfill(str(secs), 2)

\* format_duration(seconds): two divmods and an f-string.
format_duration(seconds) ==
    LET hours == seconds \div 3600
        minutes == (seconds % 3600) \div 60
        secs == (seconds % 3600) % 60
    IN  IF hours # 0
        THEN str(hours) \o <<":">> \o zfill(str(minutes), 2) \o <<":">> \o zfill(str(secs), 2)
        ELSE str(minutes) \o <<":">> \o zfill(str(secs), 2)

\* ------------------------------------------------------ the metadata API
\* What one request to YOUTUBE_API can do.  how is the way urlopen ends or
\* the shape of the body it returns; publishedAt is snippet.publishedAt of a
\* complete body.
ErrorHows == {"HTTPError", "URLError", "Timeout", "Status", "BadJSON", "NoItems", "EmptyItems"}
DATE_A == <<"2", "0", "2", "4", "-", "0", "1", "-", "0", "1">>
DATE_B == <<"2", "0", "2", "3", "-", "0", "6", "-", "1", "5">>
DATE_C == <<"2", "0", "2", "4", "-", "0", "6", "-", "0", "1">>
TIME_Z == <<"T", "0", "0", ":", "0", "0", ":", "0", "0", "Z">>
PublishedAts == {DATE_A \o TIME_Z, DATE_B \o TIME_Z, DATE_C \o TIME_Z, <<>>}
Responses ==
    [how : ErrorHows \cup {"Incomplete"}, publishedAt : {<<>>}]
        \cup [how : {"OK"}, publishedAt : PublishedAts]
\* The other fields of a complete body.
SNIPPET_TITLE == <<"[", "a", "]">>
SNIPPET_CHANNEL == <<"c", "h">>
STATISTICS_VIEWCOUNT == <<"4", "2">>
CONTENT_DURATION == <<"P", "T", "1", "H", "2", "M", "3", "S">>
SHORT_PREFIX == <<"h", "t", "t", "p", "s", ":", "/", "/", "y", "o", "u", "t", "u", ".", "b", "e", "/">>

\* get_youtube_metadata(video_id) once check_apikey has passed, given what the
\* request does: an {"Error": ...} dict, the metadata dict, or an exception
\* raised by the subscripts of lines 145-152, which no handler encloses.
get_youtube_metadata(video_id, resp) ==
    IF resp.how \in ErrorHows THEN [tag |-> "Error"]
    ELSE IF resp.how = "Incomplete" THEN [tag |-> "raise"]
    ELSE [tag |-> "ok",
          VideoID |-> video_id,
          Title |-> SNIPPET_TITLE,
          Channel |-> SNIPPET_CHANNEL,
          PostDate |-> Split(resp.publishedAt, "T")[1],
          ViewCount |-> int(STATISTICS_VIEWCOUNT),
          Duration |-> format_duration(parse_iso8601_duration(CONTENT_DURATION)),
          ShortURL |-> SHORT_PREFIX \o video_id]

\* title.translate(str.maketrans("[]", "()")).
translate_brackets(title) ==
    [i \in 1..Len(title) |-> IF title[i] = "[" THEN "(" ELSE IF title[i] = "]" THEN ")" ELSE title[i]]

\* YT_Video.from_metadata(metadata, timestamp).
from_metadata(metadata, timestamp) ==
    LET title_mdsafe == translate_brackets(metadata.Title)
        short_url == IF timestamp.some /\ metadata.ShortURL # <<>>
                     THEN metadata.ShortURL \o <<"?", "t", "=">> \o timestamp.val
                     ELSE metadata.ShortURL
        md_link == <<"[">> \o title_mdsafe \o <<"]", "(">> \o short_url \o <<")">>
        md_extended_link == <<"[">> \o title_mdsafe \o <<" ", "(">> \o metadata.Duration
                                \o <<")", "]", "(">> \o short_url \o <<")", " ", "-", " ">>
                                \o metadata.PostDate
    IN  [video_id |-> metadata.VideoID, title |-> Some(metadata.Title),
         timestamp |-> timestamp, channel |-> Some(metadata.Channel),
         post_date |-> Some(metadata.PostDate), view_count |-> Some(metadata.ViewCount),
         duration |-> Some(metadata.Duration), short_url |-> Some(short_url),
         markdown_link |-> Some(md_link), extended_link |-> Some(md_extended_link)]

\* ------------------------------------------------------- filter and sort
\* Days in a month (the calendar check datetime makes).
DaysIn(y, m) ==
    IF m \in {4, 6, 9, 11} THEN 30
    ELSE IF m = 2 THEN (IF (y % 4 = 0 /\ y % 100 # 0) \/ y % 400 = 0 THEN 29 ELSE 28)
    ELSE 31
AllDigits(s) == s # <<>> /\ \A i \in 1..Len(s) : s[i] \in DigitSet

\* datetime.strptime(s, "%Y-%m-%d"): ok is FALSE where it raises ValueError;
\* key orders the dates as datetime orders them.
strptime_ymd(y, m, d) ==
    IF y >= 1 /\ m \in 1..12 /\ d >= 1 /\ d <= DaysIn(y, m)
    THEN [ok |-> TRUE, key |-> y * 10000 + m * 100 + d]
    ELSE [ok |-> FALSE, key |-> 0]
strptime_fields(f) ==
    IF /\ Len(f) = 3
       /\ AllDigits(f[1]) /\ Len(f[1]) = 4
       /\ AllDigits(f[2]) /\ Len(f[2]) <= 2
       /\ AllDigits(f[3]) /\ Len(f[3]) <= 2
    THEN strptime_ymd(int(f[1]), int(f[2]), int(f[3]))
    ELSE [ok |-> FALSE, key |-> 0]
strptime(s) == strptime_fields(Split(s, "-"))

\* valid_results = [res for res in results if res.post_date is not None].
IsValid(res) == res.post_date.some
valid_results(results) == SelectSeq(results, IsValid)

PostKey(res) == strptime(res.post_date.val).key

\* sorted() is stable, and with reverse=True equal keys keep their order:
\* x goes after every element whose key is >= its own.
InsertDescending(out, x) ==
    LET n == Cardinality({i \in 1..Len(out) : PostKey(out[i]) >= PostKey(x)})
    IN  Take(out, n) \o <<x>> \o Drop(out, n)
InsertAscending(out, x) ==
    LET n == Cardinality({i \in 1..Len(out) : PostKey(out[i]) <= PostKey(x)})
    IN  Take(out, n) \o <<x>> \o Drop(out, n)
RECURSIVE sort_into(_, _)
sort_into(out, rest) ==
    IF rest = <<>> THEN out ELSE sort_into(InsertDescending(out, rest[1]), Tail(rest))
RECURSIVE sort_into_ascending(_, _)
sort_into_ascending(out, rest) ==
    IF rest = <<>> THEN out ELSE sort_into_ascending(InsertAscending(out, rest[1]), Tail(rest))

\* Mutant: reverse=True is dropped.
sorted_ascending(valid) == sort_into_ascending(<<>>, valid)

\* sorted(valid_results, key=strptime(post_date), reverse=True).
sorted_by_post_date(valid) == sort_into(<<>>, valid)

\* ---------------------------------------------------------------- render
DASH == <<"-", " ">>
HasMarkdown(item) == item.markdown_link.some /\ item.markdown_link.val # <<>>
HasExtended(item) == item.extended_link.some /\ item.extended_link.val # <<>>
HasTitleAndUrl(item) ==
    /\ item.title.some /\ item.title.val # <<>>
    /\ item.short_url.some /\ item.short_url.val # <<>>
MapSeq(s, Op(_)) == [i \in 1..Len(s) |-> Op(s[i])]

markdown_line(item) == DASH \o item.markdown_link.val
extended_line(item) == DASH \o item.extended_link.val
alfred_item(item) ==
    [title |-> item.title.val \o <<" ", "(">> \o item.duration.val \o <<")">>,
     arg |-> item.short_url.val,
     subtitle |-> item.post_date.val,
     mods |-> item.title.val]

\* case 'markdown' / 'extended': the lines print() joins with "\n".
render_markdown(sorted) == [kind |-> "markdown", lines |-> MapSeq(SelectSeq(sorted, HasMarkdown), markdown_line)]
render_extended(sorted) == [kind |-> "extended", lines |-> MapSeq(SelectSeq(sorted, HasExtended), extended_line)]

\* case 'alfred': the copy-all entry first, or the single "no results" entry.
render_alfred(sorted) ==
    IF sorted # <<>>
    THEN LET items == MapSeq(SelectSeq(sorted, HasTitleAndUrl), alfred_item)
         IN  [kind |-> "alfred",
              items |-> << [title |-> "Copy all items in Markdown link format",
                            subtitle |-> <<"(">> \o str(Len(items)) \o <<" ", "v", "i", "d", "e", "o", "s", ")">>,
                            arg |-> MapSeq(SelectSeq(sorted, HasExtended), extended_line)] >>
                        \o items]
    ELSE [kind |-> "alfred",
          items |-> << [title |-> "No results from the current clipboard contents!",
                        valid |-> FALSE] >>]

\* Mutant: plain mode prints the filtered, sorted list like the other modes.
render_plain_sorted(results, sorted) == [kind |-> "plain", records |-> sorted]

\* case _: json.dumps([asdict(item) for item in results]).
render_plain(results, sorted) == [kind |-> "plain", records |-> results]

\* ------------------------------------------------------------- the inputs
\* Candidate URLs given as command-line arguments or browser tabs.
URL_SHORT_T == <<"h", "t", "t", "p", "s", ":", "/", "/", "y", "o", "u", "t", "u", ".", "b", "e", "/", "a", "b", "?", "t", "=", "5", "s">>
URL_WATCH == <<"h", "t", "t", "p", "s", ":", "/", "/", "w", "w", "w", ".", "y", "o", "u", "t", "u", "b", "e", ".", "c", "o", "m", "/", "w", "a", "t", "c", "h", "?", "v", "=", "a", "b">>
URL_WATCH_T == <<"h", "t", "t", "p", "s", ":", "/", "/", "y", "o", "u", "t", "u", "b", "e", ".", "c", "o", "m", "/", "w", "a", "t", "c", "h", "?", "v", "=", "a", "b", "&", "t", "=", "9">>
URL_SHORTS == <<"h", "t", "t", "p", "s", ":", "/", "/", "y", "o", "u", "t", "u", "b", "e", ".", "c", "o", "m", "/", "s", "h", "o", "r", "t", "s", "/", "Q", "_", "-">>
URL_EMBED_T == <<"h", "t", "t", "p", "s", ":", "/", "/", "y", "o", "u", "t", "u", "b", "e", ".", "c", "o", "m", "/", "e", "m", "b", "e", "d", "/", "z", "9", "?", "t", "=", "1", "h", "3", "0", "m">>
URL_BARE == <<"h", "t", "t", "p", "s", ":", "/", "/", "y", "o", "u", "t", "u", ".", "b", "e", "/">>
URL_OTHER == <<"h", "t", "t", "p", "s", ":", "/", "/", "e", "x", "a", "m", "p", "l", "e", ".", "c", "o", "m", "/", "x">>
URLS == {URL_SHORT_T, URL_WATCH, URL_WATCH_T, URL_SHORTS, URL_EMBED_T, URL_BARE, URL_OTHER}

\* Clipboard or file contents, as the sequence of their words.
HELLO == <<"h", "e", "l", "l", "o">>
SEE == <<"s", "e", "e", ":">>
Texts == {<<>>, <<HELLO>>, <<SEE \o URL_SHORT_T, URL_WATCH_T>>, <<URL_SHORTS, HELLO, URL_SHORTS>>}

\* API_KEY as os.getenv (or 1Password) gives it: unset, empty or a key.
ApiKeys == {None, Some(<<>>), Some(<<"k">>)}
Truthy(x) == x.some /\ x.val # <<>>

OutputModes == {"plain", "alfred", "markdown", "extended"}
ModeOfFlag == [a |-> "alfred", m |-> "markdown", x |-> "extended"]

\* Lists of at most n elements of S.
Lists(S, n) == UNION {[1..k -> S] : k \in 0..n}

\* The inputs of the resolver: a URL of one of the four supported shapes,
\* built from its parts.
IDS == {<<"a", "b">>, <<"Q", "_", "-">>, <<"s">>, <<"e", "m", "b", "e", "d">>, <<"9", "s", "s">>}
\* Trailing query parameters, as (name, value) pairs.
Extras ==
    {<<>>,
     <<<<<<"t">>, <<"1", "2", "5", "s">>>>>>,
     <<<<<<"t">>, <<"9", "0">>>>>>,
     <<<<<<"t">>, <<"1", "h", "3", "0", "m">>>>>>,
     <<<<<<"t">>, <<"5", "s", "s">>>>>>,
     <<<<<<"t">>, <<>>>>>>,
     <<<<<<"x">>, <<"1">>>>>>,
     <<<<<<"s", "i">>, <<"s">>>>, <<<<"t">>, <<"7", "s">>>>>>}
\* name=value joined by "&".
RECURSIVE BuildQuery(_)
BuildQuery(ps) ==
    IF ps = <<>> THEN <<>>
    ELSE ps[1][1] \o <<"=">> \o ps[1][2]
         \o (IF Len(ps) > 1 THEN <<"&">> \o BuildQuery(Tail(ps)) ELSE <<>>)
Shapes == {"watch", "embed", "shorts", "short"}
Schemes == {HTTP, HTTP \o <<"s">>}
UrlParts == [scheme : Schemes, www : BOOLEAN, shape : Shapes, id : IDS, extra : Extras]
BuildUrl(p) ==
    p.scheme \o COLON_SLASHES \o (IF p.www THEN WWW_DOT ELSE <<>>)
    \o (CASE p.shape = "watch" -> YOUTUBE_COM \o <<"/">> \o WATCH_V
          [] p.shape = "embed" -> YOUTUBE_COM \o <<"/">> \o EMBED_
          [] p.shape = "shorts" -> YOUTUBE_COM \o <<"/">> \o SHORTS_
          [] p.shape = "short" -> YOUTU_BE \o <<"/">>)
    \o p.id
    \o (IF p.extra = <<>> THEN <<>>
        ELSE (IF p.shape = "watch" THEN <<"&">> ELSE <<"?">>) \o BuildQuery(p.extra))
NoParts == [scheme : {<<>>}, www : {FALSE}, shape : {"none"}, id : {<<>>}, extra : {<<>>}]

\* The inputs of the duration functions: PT[<H>H][<M>M][<S>S] built from its
\* components (-1: the component is absent), and strings of other forms.
DurParts == [h : -1..MaxHours, m : -1..MaxMinutes, s : -1..MaxSeconds]
Component(n, unit) == IF n < 0 THEN <<>> ELSE str(n) \o <<unit>>
BuildDuration(p) ==
    <<"P", "T">> \o Component(p.h, "H") \o Component(p.m, "M") \o Component(p.s, "S")
OtherDurations == {<<>>, <<"P", "1", "D">>, <<"1", "H">>, <<"p", "t", "5", "s">>, <<"P", "1", "D", "T", "2", "H">>}

\* ------------------------------------------------------------------ state
VARIABLES
    pc,                  \* where the run of the script is
    API_KEY,             \* the module-level API_KEY
    alfred_workflow_uid, \* whether the environment variable is set (in_alfred)
    OUTPUT_MODE, DEBUG, found_urls, video_list, results, sorted_results,
    api_calls,           \* the id of every request sent to YOUTUBE_API, in order
    stdout, stderr,      \* what has been printed
    r_pc, r_parts, url, info, videos,         \* one call of the resolver
    d_pc, d_parts, duration, seconds, display \* one duration conversion

run_vars == <<pc, API_KEY, alfred_workflow_uid, OUTPUT_MODE, DEBUG, found_urls, video_list,
              results, sorted_results, api_calls, stdout, stderr>>
resolver_vars == <<r_pc, r_parts, url, info, videos>>
duration_vars == <<d_pc, d_parts, duration, seconds, display>>
vars == <<run_vars, resolver_vars, duration_vars>>

RunOff ==
    /\ pc = "off" /\ API_KEY = None /\ alfred_workflow_uid = FALSE /\ OUTPUT_MODE = "plain"
    /\ DEBUG = FALSE /\ found_urls = <<>> /\ video_list = <<>> /\ results = <<>>
    /\ sorted_results = <<>> /\ api_calls = <<>> /\ stdout = <<>> /\ stderr = <<>>
ResolverOff ==
    /\ r_pc = "off" /\ r_parts \in NoParts /\ url = <<>>
    /\ info = [video_id |-> None, timestamp |-> None] /\ videos = <<>>
DurationOff ==
    /\ d_pc = "off" /\ d_parts = [h |-> -1, m |-> -1, s |-> -1] /\ duration = <<>>
    /\ seconds = 0 /\ display = <<>>

\* ------------------------------------------------- the script (__main__)
in_alfred == alfred_workflow_uid

\* The state at line 249, for every environment.
Init ==
    /\ pc = "start"
    /\ API_KEY \in ApiKeys
    /\ alfred_workflow_uid \in BOOLEAN
    /\ OUTPUT_MODE = "plain" /\ DEBUG = FALSE
    /\ found_urls = <<>> /\ video_list = <<>> /\ results = <<>> /\ sorted_results = <<>>
    /\ api_calls = <<>> /\ stdout = <<>> /\ stderr = <<>>
    /\ ResolverOff /\ DurationOff

\* show_usage(): sys.exit(message) writes the message to stderr.
show_usage == /\ stderr' = Append(stderr, "usage") /\ pc' = "usage_exit"

\* Lines 255-265 outside Alfred: plain mode, usage when there are no arguments.
StartCLI ==
    /\ pc = "start" /\ ~in_alfred
    /\ \E has_args \in BOOLEAN :
         IF ~has_args THEN show_usage ELSE (pc' = "args" /\ stderr' = stderr)
    /\ UNCHANGED <<resolver_vars, duration_vars>>
    /\ UNCHANGED <<API_KEY, alfred_workflow_uid, OUTPUT_MODE, DEBUG, found_urls, video_list,
                   results, sorted_results, api_calls, stdout>>

\* Lines 255-260 in Alfred with BROWSER_TABS set: the tabs' URLs, unfiltered.
StartAlfredTabs ==
    /\ pc = "start" /\ in_alfred
    /\ OUTPUT_MODE' = "alfred"
    /\ \E tabs \in Lists(URLS, MaxUrls) : found_urls' = found_urls \o tabs
    /\ \E has_args \in BOOLEAN : pc' = IF has_args THEN "args" ELSE "extract"
    /\ UNCHANGED <<resolver_vars, duration_vars>>
    /\ UNCHANGED <<API_KEY, alfred_workflow_uid, DEBUG, video_list, results, sorted_results,
                   api_calls, stdout, stderr>>

\* Lines 259-260 when BROWSER_TABS is not a JSON list of objects with "url":
\* json.loads or the subscript raises.
StartAlfredBadTabs ==
    /\ pc = "start" /\ in_alfred
    /\ OUTPUT_MODE' = "alfred"
    /\ pc' = "crashed" /\ stderr' = Append(stderr, "Traceback")
    /\ UNCHANGED <<resolver_vars, duration_vars>>
    /\ UNCHANGED <<API_KEY, alfred_workflow_uid, DEBUG, found_urls, video_list, results,
                   sorted_results, api_calls, stdout>>

\* Lines 261-262 in Alfred without BROWSER_TABS: the clipboard's links.
StartAlfredClipboard ==
    /\ pc = "start" /\ in_alfred
    /\ OUTPUT_MODE' = "alfred"
    /\ \E text \in Texts : \E links \in extract_youtube_links(text) :
         /\ Len(found_urls \o links) <= MaxUrls
         /\ found_urls' = found_urls \o links
    /\ \E has_args \in BOOLEAN : pc' = IF has_args THEN "args" ELSE "extract"
    /\ UNCHANGED <<resolver_vars, duration_vars>>
    /\ UNCHANGED <<API_KEY, alfred_workflow_uid, DEBUG, video_list, results, sorted_results,
                   api_calls, stdout, stderr>>

\* One turn of "for arg in args" ends the loop when arg was the last one.
NextArg == \E last \in BOOLEAN : pc' = IF last THEN "extract" ELSE "args"

\* -h, --help
ArgHelp ==
    /\ pc = "args"
    /\ show_usage
    /\ UNCHANGED <<resolver_vars, duration_vars>>
    /\ UNCHANGED <<API_KEY, alfred_workflow_uid, OUTPUT_MODE, DEBUG, found_urls, video_list,
                   results, sorted_results, api_calls, stdout>>

\* -c, --clipboard
ArgClipboard ==
    /\ pc = "args"
    /\ \E text \in Texts : \E links \in extract_youtube_links(text) :
         /\ Len(found_urls \o links) <= MaxUrls
         /\ found_urls' = found_urls \o links
    /\ NextArg
    /\ UNCHANGED <<resolver_vars, duration_vars>>
    /\ UNCHANGED <<API_KEY, alfred_workflow_uid, OUTPUT_MODE, DEBUG, video_list, results,
                   sorted_results, api_calls, stdout, stderr>>

\* -a, -m, -x: the last output-mode flag wins.
ArgMode ==
    /\ pc = "args"
    /\ \E flag \in DOMAIN ModeOfFlag : OUTPUT_MODE' = ModeOfFlag[flag]
    /\ NextArg
    /\ UNCHANGED <<resolver_vars, duration_vars>>
    /\ UNCHANGED <<API_KEY, alfred_workflow_uid, DEBUG, found_urls, video_list, results,
                   sorted_results, api_calls, stdout, stderr>>

\* -d, --debug
ArgDebug ==
    /\ pc = "args"
    /\ DEBUG' = TRUE
    /\ NextArg
    /\ UNCHANGED <<resolver_vars, duration_vars>>
    /\ UNCHANGED <<API_KEY, alfred_workflow_uid, OUTPUT_MODE, found_urls, video_list, results,
                   sorted_results, api_calls, stdout, stderr>>

\* An argument that names an existing file: parse_file gives the links of its
\* text, or [] when it cannot be read.
ArgFile ==
    /\ pc = "args"
    /\ \E text \in Texts : \E links \in extract_youtube_links(text) :
         /\ Len(found_urls \o links) <= MaxUrls
         /\ found_urls' = found_urls \o links
    /\ NextArg
    /\ UNCHANGED <<resolver_vars, duration_vars>>
    /\ UNCHANGED <<API_KEY, alfred_workflow_uid, OUTPUT_MODE, DEBUG, video_list, results,
                   sorted_results, api_calls, stdout, stderr>>

\* Any other argument is appended as it is.
ArgUrl ==
    /\ pc = "args"
    /\ Len(found_urls) < MaxUrls
    /\ \E arg \in URLS : found_urls' = Append(found_urls, arg)
    /\ NextArg
    /\ UNCHANGED <<resolver_vars, duration_vars>>
    /\ UNCHANGED <<API_KEY, alfred_workflow_uid, OUTPUT_MODE, DEBUG, video_list, results,
                   sorted_results, api_calls, stdout, stderr>>

\* Lines 290-296: extract_video_id, then the debug dump and exit.
Extract ==
    /\ pc = "extract"
    /\ video_list' = extract_video_id(found_urls)
    /\ IF DEBUG
       THEN /\ stdout' = Append(stdout, [kind |-> "debug", found_urls |-> found_urls,
                                          videos |-> video_list'])
            /\ pc' = "debug_exit"
       ELSE /\ stdout' = stdout
            /\ pc' = "enrich"
    /\ UNCHANGED <<resolver_vars, duration_vars>>
    /\ UNCHANGED <<API_KEY, alfred_workflow_uid, OUTPUT_MODE, DEBUG, found_urls, results,
                   sorted_results, api_calls, stderr>>

\* The video the loop of lines 298-300 is at.
video == video_list[Len(results) + 1]
InLoop == pc = "enrich" /\ Len(results) < Len(video_list)

\* check_apikey() without a key: the Alfred entry or the message, then exit.
EnrichNoKey ==
    /\ InLoop /\ ~Truthy(API_KEY)
    /\ IF in_alfred
       THEN /\ stdout' = Append(stdout,
                    [kind |-> "alfred",
                     items |-> << [title |-> "API key missing or invalid. Check workflow configuration!",
                                   icon |-> "api-err.png", valid |-> FALSE] >>])
            /\ stderr' = stderr
       ELSE /\ stderr' = Append(stderr, "API key missing or invalid")
            /\ stdout' = stdout
    /\ pc' = "apikey_exit"
    /\ UNCHANGED <<resolver_vars, duration_vars>>
    /\ UNCHANGED <<API_KEY, alfred_workflow_uid, OUTPUT_MODE, DEBUG, found_urls, video_list,
                   results, sorted_results, api_calls>>

\* update_video_metadata(video) when the request ends in {"Error": ...}: the
\* pending record is returned as it is.
EnrichError ==
    /\ InLoop /\ Truthy(API_KEY)
    /\ \E resp \in Responses :
         /\ get_youtube_metadata(video.video_id, resp).tag = "Error"
         /\ api_calls' = Append(api_calls, video.video_id)
         /\ results' = Append(results, video)
    /\ UNCHANGED <<resolver_vars, duration_vars>>
    /\ UNCHANGED <<pc, API_KEY, alfred_workflow_uid, OUTPUT_MODE, DEBUG, found_urls,
                   video_list, sorted_results, stdout, stderr>>

\* update_video_metadata(video) when the body is complete.
EnrichOK ==
    /\ InLoop /\ Truthy(API_KEY)
    /\ \E resp \in Responses :
         LET metadata == get_youtube_metadata(video.video_id, resp)
         IN  /\ metadata.tag = "ok"
             /\ api_calls' = Append(api_calls, video.video_id)
             /\ results' = Append(results, from_metadata(metadata, video.timestamp))
    /\ UNCHANGED <<resolver_vars, duration_vars>>
    /\ UNCHANGED <<pc, API_KEY, alfred_workflow_uid, OUTPUT_MODE, DEBUG, found_urls,
                   video_list, sorted_results, stdout, stderr>>

\* get_youtube_metadata raises (a body with items but without one of the keys
\* read at lines 147-152): nothing catches it and the run ends in a traceback.
EnrichRaise ==
    /\ InLoop /\ Truthy(API_KEY)
    /\ \E resp \in Responses :
         /\ get_youtube_metadata(video.video_id, resp).tag = "raise"
         /\ api_calls' = Append(api_calls, video.video_id)
    /\ pc' = "crashed" /\ stderr' = Append(stderr, "Traceback")
    /\ UNCHANGED <<resolver_vars, duration_vars>>
    /\ UNCHANGED <<API_KEY, alfred_workflow_uid, OUTPUT_MODE, DEBUG, found_urls, video_list,
                   results, sorted_results, stdout>>

\* Lines 303-339: filter, sort, print.  strptime raising on a post date that
\* is not a date ends the run in a traceback.
Render ==
    /\ pc = "enrich" /\ Len(results) = Len(video_list)
    /\ LET valid == valid_results(results)
       IN  IF \E i \in 1..Len(valid) : ~strptime(valid[i].post_date.val).ok
           THEN /\ pc' = "crashed" /\ stderr' = Append(stderr, "Traceback")
                /\ UNCHANGED <<sorted_results, stdout>>
           ELSE /\ sorted_results' = sorted_by_post_date(valid)
                /\ stdout' = Append(stdout,
                       CASE OUTPUT_MODE = "markdown" -> render_markdown(sorted_results')
                         [] OUTPUT_MODE = "extended" -> render_extended(sorted_results')
                         [] OUTPUT_MODE = "alfred" -> render_alfred(sorted_results')
                         [] OTHER -> render_plain(results, sorted_results'))
                /\ pc' = "done" /\ stderr' = stderr
    /\ UNCHANGED <<resolver_vars, duration_vars>>
    /\ UNCHANGED <<API_KEY, alfred_workflow_uid, OUTPUT_MODE, DEBUG, found_urls, video_list,
                   results, api_calls>>

Next ==
    \/ StartCLI \/ StartAlfredTabs \/ StartAlfredBadTabs \/ StartAlfredClipboard
    \/ ArgHelp \/ ArgClipboard \/ ArgMode \/ ArgDebug \/ ArgFile \/ ArgUrl
    \/ Extract \/ EnrichNoKey \/ EnrichError \/ EnrichOK \/ EnrichRaise \/ Render

Spec == Init /\ [][Next]_vars

\* ------------------------------------- the resolver on one URL at a time
InitResolve ==
    /\ RunOff /\ DurationOff
    /\ r_pc = "input"
    /\ r_parts \in UrlParts
    /\ url = BuildUrl(r_parts)
    /\ info = [video_id |-> None, timestamp |-> None] /\ videos = <<>>

\* video_id, timestamp = get_video_info(item)
Resolve ==
    /\ r_pc = "input"
    /\ info' = get_video_info(url)
    /\ r_pc' = "resolved"
    /\ UNCHANGED <<r_parts, url, videos>>
    /\ UNCHANGED <<run_vars, duration_vars>>

\* extract_video_id([url])
Aggregate ==
    /\ r_pc = "resolved"
    /\ videos' = extract_video_id(<<url>>)
    /\ r_pc' = "aggregated"
    /\ UNCHANGED <<r_parts, url, info>>
    /\ UNCHANGED <<run_vars, duration_vars>>

NextResolve == Resolve \/ Aggregate
SpecResolve == InitResolve /\ [][NextResolve]_vars

\* --------------------------------- the duration functions on one string
InitDuration ==
    /\ RunOff /\ ResolverOff
    /\ d_pc = "input"
    /\ \/ d_parts \in DurParts /\ duration = BuildDuration(d_parts)
       \/ d_parts = [h |-> -2, m |-> -2, s |-> -2] /\ duration \in OtherDurations
    /\ seconds = 0 /\ display = <<>>

\* duration_seconds = parse_iso8601_duration(duration)
ParseDuration ==
    /\ d_pc = "input"
    /\ seconds' = parse_iso8601_duration(duration)
    /\ d_pc' = "parsed"
    /\ UNCHANGED <<d_parts, duration, display>>
    /\ UNCHANGED <<run_vars, resolver_vars>>

\* duration_str = format_duration(duration_seconds)
FormatDuration ==
    /\ d_pc = "parsed"
    /\ display' = format_duration(seconds)
    /\ d_pc' = "formatted"
    /\ UNCHANGED <<d_parts, duration, seconds>>
    /\ UNCHANGED <<run_vars, resolver_vars>>

NextDuration == ParseDuration \/ FormatDuration
SpecDuration == InitDuration /\ [][NextDuration]_vars
\* ================================================================ claims
Extracted == pc \in {"enrich", "done", "debug_exit", "apikey_exit"}
\* What the resolver gives for the k-th collected URL.
InfoOf(k) == get_video_info(found_urls[k])
Resolving == {k \in 1..Len(found_urls) : InfoOf(k).video_id.some}
\* The first collected URL that resolves to the id.
FirstOf(id) ==
    CHOOSE k \in Resolving :
        /\ InfoOf(k).video_id.val = id
        /\ \A j \in Resolving : InfoOf(j).video_id.val = id => k <= j

\* C1: once extract_video_id has run, video_list holds exactly one record per
\* distinct id the collected URLs resolve to, in the order in which the ids
\* first occur, and each record's timestamp is the one of the first URL that
\* resolved to its id, whatever later URLs of that id carry.
C1_FirstSeenWins ==
    Extracted =>
        /\ \A i, j \in 1..Len(video_list) :
             i # j => video_list[i].video_id # video_list[j].video_id
        /\ {video_list[i].video_id : i \in 1..Len(video_list)}
             = {InfoOf(k).video_id.val : k \in Resolving}
        /\ \A i, j \in 1..Len(video_list) :
             i < j => FirstOf(video_list[i].video_id) < FirstOf(video_list[j].video_id)
        /\ \A i \in 1..Len(video_list) :
             video_list[i].timestamp
               = StoredTimestamp(InfoOf(FirstOf(video_list[i].video_id)).timestamp)
\* Two URLs of one video, the first without a timestamp and the second with
\* one: a single record, without a timestamp.
C1_Witness ==
    /\ Extracted
    /\ found_urls = <<URL_WATCH, URL_SHORT_T>>
    /\ Len(video_list) = 1
    /\ video_list[1].timestamp = None

\* C2: for each of the four supported URL shapes built from an id of
\* [A-Za-z0-9_-]+, with or without trailing query parameters, the resolver
\* returns exactly that id.
C2_ResolverRecoversId ==
    r_pc \in {"resolved", "aggregated"} => info.video_id = Some(r_parts.id)
C2_Witness ==
    /\ r_pc = "resolved"
    /\ r_parts.shape = "short" /\ r_parts.extra # <<>> /\ r_parts.www
    /\ info.video_id = Some(<<"Q", "_", "-">>)

\* The records of results that were enriched, and the pending ones.
Enriched == {i \in 1..Len(results) : results[i].post_date.some}
Pending == {i \in 1..Len(results) : ~results[i].post_date.some}
Printed == stdout[Len(stdout)]

\* C3: when the run prints its result, a record without a post date is in no
\* line of the markdown and extended lists and in no entry of the launcher
\* payload (each line or entry is the one of an enriched record, and there are
\* as many as enriched records), and in plain mode it is printed as the
\* pending record: video_id and timestamp, every other field None.
C3_PostDateFilter ==
    pc = "done" =>
        /\ OUTPUT_MODE = "markdown" =>
             /\ Len(Printed.lines) = Cardinality(Enriched)
             /\ \A n \in 1..Len(Printed.lines) :
                  \E i \in Enriched : Printed.lines[n] = DASH \o results[i].markdown_link.val
        /\ OUTPUT_MODE = "extended" =>
             /\ Len(Printed.lines) = Cardinality(Enriched)
             /\ \A n \in 1..Len(Printed.lines) :
                  \E i \in Enriched : Printed.lines[n] = DASH \o results[i].extended_link.val
        /\ OUTPUT_MODE = "alfred" =>
             IF Enriched = {}
             THEN Len(Printed.items) = 1 /\ Printed.items[1].valid = FALSE
             ELSE /\ Len(Printed.items) = 1 + Cardinality(Enriched)
                  /\ Len(Printed.items[1].arg) = Cardinality(Enriched)
                  /\ \A n \in 2..Len(Printed.items) :
                       \E i \in Enriched :
                          /\ Printed.items[n].arg = results[i].short_url.val
                          /\ Printed.items[n].subtitle = results[i].post_date.val
        /\ OUTPUT_MODE = "plain" =>
             /\ Len(Printed.records) = Len(results)
             /\ \A i \in Pending :
                  Printed.records[i] = YT_Video(video_list[i].video_id, video_list[i].timestamp)
\* Plain mode, one enrichment failed and one succeeded.
C3_Witness ==
    /\ pc = "done" /\ OUTPUT_MODE = "plain"
    /\ Len(results) = 2 /\ 1 \in Pending /\ 2 \in Enriched
    /\ Len(Printed.records) = 2

\* C4: whatever the metadata API does for an id, the run does not abort: no
\* run that has called the API ends in a traceback, and a run that ends has
\* fetched every id of video_list and printed its output.
C4_FailuresAbsorbed ==
    /\ api_calls # <<>> => pc # "crashed"
    /\ pc = "done" => /\ api_calls = [i \in 1..Len(video_list) |-> video_list[i].video_id]
                      /\ Len(stdout) = 1

\* C5: with the API key missing or empty and the launcher output mode, a run
\* that gets as far as its output or the key check prints a single launcher
\* payload whose only entry has valid false, and sends no API request.
C5_MissingKeyLauncher ==
    (~Truthy(API_KEY) /\ OUTPUT_MODE = "alfred" /\ pc \in {"done", "apikey_exit"}) =>
        /\ api_calls = <<>>
        /\ Len(stdout) = 1
        /\ stdout[1].kind = "alfred"
        /\ Len(stdout[1].items) = 1
        /\ stdout[1].items[1].valid = FALSE

\* a >= b for two YYYY-MM-DD dates: zero-padded, they order as strings do.
RECURSIVE StrGeq(_, _)
StrGeq(a, b) ==
    IF b = <<>> THEN TRUE
    ELSE IF a = <<>> THEN FALSE
    ELSE IF a[1] = b[1] THEN StrGeq(Tail(a), Tail(b))
    ELSE DigitVal(a[1]) > DigitVal(b[1])
\* The post date an extended line ends with.
LineDate(line) == SubSeq(line, Len(line) - 9, Len(line))

\* C6: the markdown, extended and launcher outputs list the records by
\* descending post date (each record's date is >= the next one's), whatever
\* the order of the ids; plain mode keeps the order of video_list.
C6_SortOrder ==
    pc = "done" =>
        /\ OUTPUT_MODE = "markdown" =>
             /\ \A n \in 1..Len(Printed.lines) :
                  Printed.lines[n] = DASH \o sorted_results[n].markdown_link.val
             /\ \A n \in 1..(Len(sorted_results) - 1) :
                  StrGeq(sorted_results[n].post_date.val, sorted_results[n + 1].post_date.val)
        /\ OUTPUT_MODE = "extended" =>
             \A n \in 1..(Len(Printed.lines) - 1) :
                StrGeq(LineDate(Printed.lines[n]), LineDate(Printed.lines[n + 1]))
        /\ OUTPUT_MODE = "alfred" =>
             \A n \in 2..(Len(Printed.items) - 1) :
                StrGeq(Printed.items[n].subtitle, Printed.items[n + 1].subtitle)
        /\ OUTPUT_MODE = "plain" =>
             [i \in 1..Len(Printed.records) |-> Printed.records[i].video_id]
               = [i \in 1..Len(video_list) |-> video_list[i].video_id]
\* Extended mode, two records enriched in ascending order of date and printed
\* in the other order.
C6_Witness ==
    /\ pc = "done" /\ OUTPUT_MODE = "extended"
    /\ Len(results) = 2 /\ Enriched = {1, 2}
    /\ results[1].post_date.val = DATE_B /\ results[2].post_date.val = DATE_C
    /\ LineDate(Printed.lines[1]) = DATE_C /\ LineDate(Printed.lines[2]) = DATE_B

\* C7: no id is requested from the metadata API twice in a run, whatever URLs
\* were given and however the requests end.
C7_AtMostOnce ==
    /\ \A i, j \in 1..Len(api_calls) : i # j => api_calls[i] # api_calls[j]
    /\ Len(api_calls) <= Len(video_list)
\* Two URLs of different shapes for one video, whose single request failed.
C7_Witness ==
    /\ pc = "done"
    /\ found_urls = <<URL_SHORT_T, URL_WATCH>>
    /\ api_calls = << <<"a", "b">> >>
    /\ Pending = {1}

\* The value of the first t parameter of the trailing parameters, when it has
\* one that is not blank.
TParams(ps) == {n \in 1..Len(ps) : ps[n][1] = <<"t">> /\ ps[n][2] # <<>>}
TValue(ps) == ps[CHOOSE n \in TParams(ps) : \A m \in TParams(ps) : n <= m][2]
\* v without one trailing "s".
StripSuffixS(v) == IF v # <<>> /\ v[Len(v)] = "s" THEN Take(v, Len(v) - 1) ELSE v

\* C8: the timestamp stored for a URL with a t parameter is the parameter's
\* value without its trailing "s" unit suffix, anything else being left as it
\* is; for a URL without a t parameter it is absent.
C8_TimestampResolution ==
    r_pc = "aggregated" =>
        /\ Len(videos) = 1
        /\ videos[1].timestamp =
             IF TParams(r_parts.extra) = {} THEN None
             ELSE Some(StripSuffixS(TValue(r_parts.extra)))

\* The components of the duration, absent ones being 0, and the total.
PartOf(n) == IF n < 0 THEN 0 ELSE n
TotalOf(p) == 3600 * PartOf(p.h) + 60 * PartOf(p.m) + PartOf(p.s)
TwoDigits(n) == <<Digits[(n \div 10) + 1], Digits[(n % 10) + 1]>>
Decimal(n) == IF n < 10 THEN <<Digits[n + 1]>> ELSE TwoDigits(n)
HoursOf(t) == t \div 3600
MinutesOf(t) == (t - 3600 * HoursOf(t)) \div 60
SecondsOf(t) == t - 3600 * HoursOf(t) - 60 * MinutesOf(t)
IsPattern == d_parts.h >= -1

C10_NonEmptyIds ==
    /\ \A i \in 1..Len(video_list) : video_list[i].video_id # <<>>
    /\ \A i \in 1..Len(api_calls) : api_calls[i] # <<>>
====
